---- MODULE Spec2Model ----
(***************************************************************************)
(* State-machine model of snakemake/scheduler.py (class JobScheduler):     *)
(* the control loop schedule(), the callbacks _finished and _error that    *)
(* the execution backend invokes from its worker contexts, and the two     *)
(* job selectors (_selector and _thread_based_selector).                   *)
(*                                                                         *)
(* The dependency graph (dag.ready_jobs, dag.finish) and the backend       *)
(* (executor.run, executor.shutdown) are collaborators whose code is not   *)
(* part of scheduler.py; they are modelled from their documented           *)
(* contracts.                                                              *)
(***************************************************************************)
EXTENDS Integers, Sequences, FiniteSets, TLC

\* ----------------------------------------------------------------- bounds
NJobs == 3          \* jobs of the graph
MaxThreads == 3     \* largest thread requirement a job declares
MaxCores == 2       \* largest value of the constructor's cores argument
NumWorkers == 2     \* backend contexts that can run callbacks concurrently
SelMaxCores == 4    \* largest budget handed to a selector on its own
SelMaxThreads == 3  \* largest thread requirement of a selector's candidate

Jobs == 1..NJobs
Workers == 1..NumWorkers
\* the executors of lines 25-34; the touch executor (line 28) leaves the
\* selector and every counter as the cluster executor does, so the two are
\* one value here
Modes == {"local", "cluster", "dryrun"}

VARIABLES
    mode,           \* which executor __init__ built (and so which selector)
    maxcores,       \* self.maxcores
    _cores,         \* self._cores
    _errors,        \* self._errors
    _open_jobs,     \* self._open_jobs (Event): TRUE when set
    finished_jobs,  \* self.finished_jobs
    threads,        \* job.threads, per job
    needrun,        \* job.needrun, per job
    deps,           \* dag: the jobs each job depends on
    finished,       \* dag: jobs for which dag.finish was called
    pc,             \* position of the control thread inside schedule()
    errSeen,        \* what line 41 read from self._errors in this iteration
    needrunL,       \* schedule()'s local list needrun
    run,            \* schedule()'s local run, the jobs still to hand over
    creg,           \* the value of self._cores loaded by line 63
    result,         \* what schedule() returned: "none", "true", "false"
    inflight,       \* per job: dispatches whose callback has not been invoked
    failed,         \* per job: dispatches that ended in the error callback
    dispatched,     \* per job: number of executor.run calls
    clamped,        \* jobs whose threads line 56 has scaled down
    unscanned,      \* jobs passed to dag.finish since the last scan of line 47
    wpc,            \* per worker context: position inside a callback
    wjob,           \* per worker context: the job of its _finished call
    wreg            \* per worker context: the value it loaded

vars == <<mode, maxcores, _cores, _errors, _open_jobs, finished_jobs,
          threads, needrun, deps, finished, pc, errSeen, needrunL, run,
          creg, result, inflight, failed, dispatched, clamped, unscanned,
          wpc, wjob, wreg>>

\* ------------------------------------------------------------- helpers
Max(a, b) == IF a >= b THEN a ELSE b
Min(a, b) == IF a <= b THEN a ELSE b
Range(s) == {s[k] : k \in 1..Len(s)}

RECURSIVE SumOver(_, _)
\* sum(f[x] for x in S)
SumOver(S, f) ==
    IF S = {} THEN 0
    ELSE LET x == CHOOSE y \in S : TRUE IN f[x] + SumOver(S \ {x}, f)

\* sum(job.threads for job in run)
ThreadSum(S) == SumOver(S, threads)

\* ------------------------------------------------------- the selectors
\* jobs[:self._cores]: Python's slice, also for a negative bound
PySlicePrefix(jobs, c) ==
    IF c >= 0 THEN SubSeq(jobs, 1, Min(c, Len(jobs)))
    ELSE SubSeq(jobs, 1, Max(0, Len(jobs) + c))

\* JobScheduler._selector
_selector(jobs) == PySlicePrefix(jobs, _cores)

RECURSIVE KTableStrict(_, _, _)
\* mutant of KTable: line 93 written as t >= j, so that a job that fits the
\* capacity exactly is treated as too large
KTableStrict(jobs, cap, i) ==
    IF i = 0 THEN [r \in {0} |-> [j \in 0..cap |-> 0]]
    ELSE LET P == KTableStrict(jobs, cap, i - 1)
             t == threads[jobs[i]]
             row == [j \in 0..cap |->
                        IF j = 0 THEN 0
                        ELSE IF t >= j THEN P[i - 1][j]
                        ELSE Max(P[i - 1][j], t + P[i - 1][j - t])]
         IN [r \in 0..i |-> IF r = i THEN row ELSE P[r]]

RECURSIVE KTable(_, _, _)
\* rows 0..i of the table K of _thread_based_selector, for capacities 0..cap
KTable(jobs, cap, i) ==
    IF i = 0 THEN [r \in {0} |-> [j \in 0..cap |-> 0]]
    ELSE LET P == KTable(jobs, cap, i - 1)
             t == threads[jobs[i]]
             row == [j \in 0..cap |->
                        IF j = 0 THEN 0
                        ELSE IF t > j THEN P[i - 1][j]
                        ELSE Max(P[i - 1][j], t + P[i - 1][j - t])]
         IN [r \in 0..i |-> IF r = i THEN row ELSE P[r]]

\* mutant of WalkTakes: job i is taken whenever taking it reaches the cell's
\* value, so that among equal sums the later-listed job wins
WalkTakesLate(jobs, K, i, j) ==
    /\ threads[jobs[i]] <= j
    /\ K[i][j] = threads[jobs[i]] + K[i - 1][j - threads[jobs[i]]]

\* the test of line 102: job i is taken when the cell differs from the one above
WalkTakes(jobs, K, i, j) == K[i][j] # K[i - 1][j]

RECURSIVE WalkBack(_, _, _, _)
\* the loop of lines 101..106, from row i and capacity j
WalkBack(jobs, K, i, j) ==
    IF i = 0 THEN {}
    ELSE IF WalkTakes(jobs, K, i, j)
         THEN {jobs[i]} \cup WalkBack(jobs, K, i - 1, j - threads[jobs[i]])
         ELSE WalkBack(jobs, K, i - 1, j)

\* JobScheduler._thread_based_selector, for self._cores >= 0
_thread_based_selector(jobs) ==
    WalkBack(jobs, KTable(jobs, _cores, Len(jobs)), Len(jobs), _cores)

\* with self._cores < 0 every row of K is empty and K[i][j] raises IndexError
SelectorRaises(jobs) == mode = "local" /\ _cores < 0 /\ Len(jobs) > 0

\* the selector bound in __init__ (line 34 rebinds it for the CPU executor)
Selected(jobs) ==
    IF mode = "local" THEN _thread_based_selector(jobs)
    ELSE Range(_selector(jobs))

\* ------------------------------------------------ the dependency graph
\* a dependency is satisfied once it is finished or needs no run
DepsSatisfied(j) == \A d \in deps[j] : d \in finished \/ ~needrun[d]

\* dag.ready_jobs: the unfinished jobs whose dependencies are satisfied
Ready(j) == j \notin finished /\ DepsSatisfied(j)

\* dag.ready_jobs as the sequence the loop of line 47 iterates
ready_jobs == SelectSeq([k \in 1..NJobs |-> k], Ready)

\* dag.finish(job)
DagFinish(j) == finished \cup {j}

\* ------------------------------------------------------ construction
\* JobScheduler.__init__ (lines 16..34), for every graph and backend mode
SchedulerInit ==
    /\ mode \in Modes
    /\ maxcores \in 1..MaxCores
    /\ _cores = maxcores
    /\ _errors = FALSE
    /\ _open_jobs = TRUE
    /\ finished_jobs = 0

\* the graph handed to the constructor: each job may depend on its predecessor
GraphInit ==
    /\ threads \in [Jobs -> 1..MaxThreads]
    /\ needrun \in [Jobs -> BOOLEAN]
    /\ deps \in {d \in [Jobs -> SUBSET Jobs] : \A j \in Jobs : d[j] \subseteq {j - 1}}
    /\ finished = {}

\* nothing dispatched, no callback running; a local that is dead (the list
\* needrun after the selector ran, a loaded value after its store) is kept
\* at its initial value
BackendInit ==
    /\ inflight = [j \in Jobs |-> 0]
    /\ failed = [j \in Jobs |-> 0]
    /\ dispatched = [j \in Jobs |-> 0]
    /\ clamped = {}
    /\ unscanned = {}
    /\ wpc = [w \in Workers |-> "idle"]
    /\ wjob = [w \in Workers |-> 1]
    /\ wreg = [w \in Workers |-> 0]

Init ==
    /\ SchedulerInit
    /\ GraphInit
    /\ BackendInit
    /\ pc = "wait"
    /\ errSeen = FALSE
    /\ needrunL = <<>>
    /\ run = {}
    /\ creg = 0
    /\ result = "none"

graphVars == <<threads, needrun, deps, finished>>
configVars == <<mode, maxcores>>
historyVars == <<clamped, unscanned>>
backendVars == <<inflight, failed, dispatched, historyVars, wpc, wjob, wreg>>
workerVars == <<wpc, wjob, wreg>>
localVars == <<errSeen, needrunL, run, creg>>

\* --------------------------------------------------- the control loop
\* line 39: self._open_jobs.wait() returns once the event is set
Wait ==
    /\ pc = "wait"
    /\ _open_jobs
    /\ pc' = "clear"
    /\ UNCHANGED <<configVars, _cores, _errors, _open_jobs, finished_jobs,
                   graphVars, localVars, result, backendVars>>

\* line 40: self._open_jobs.clear()
Clear ==
    /\ pc = "clear"
    /\ _open_jobs' = FALSE
    /\ pc' = "check"
    /\ UNCHANGED <<configVars, _cores, _errors, finished_jobs,
                   graphVars, localVars, result, backendVars>>

\* mutant of CheckErrors: the flag is read but the loop falls through to the
\* scan instead of returning
CheckErrorsNoReturn ==
    /\ pc = "check"
    /\ errSeen' = _errors
    /\ pc' = "scan"
    /\ UNCHANGED <<configVars, _cores, _errors, _open_jobs, finished_jobs,
                   graphVars, needrunL, run, creg, result, backendVars>>

\* mutant of CheckErrors: the condition of line 41 negated
CheckErrorsNegated ==
    /\ pc = "check"
    /\ errSeen' = _errors
    /\ pc' = IF ~_errors THEN "shutdown_err" ELSE "scan"
    /\ UNCHANGED <<configVars, _cores, _errors, _open_jobs, finished_jobs,
                   graphVars, needrunL, run, creg, result, backendVars>>

\* line 41: if self._errors
CheckErrors ==
    /\ pc = "check"
    /\ errSeen' = _errors
    /\ pc' = IF _errors THEN "shutdown_err" ELSE "scan"
    /\ UNCHANGED <<configVars, _cores, _errors, _open_jobs, finished_jobs,
                   graphVars, needrunL, run, creg, result, backendVars>>

\* mutant of Clamped: the assignment of line 56 moved under the dry-run test
\* of line 52
ClampedNotDryrun(j) ==
    IF Ready(j) /\ needrun[j] /\ threads[j] > maxcores /\ mode # "dryrun"
    THEN maxcores
    ELSE threads[j]

\* line 56: job.threads = self.maxcores, for the candidates of the scan
Clamped(j) ==
    IF Ready(j) /\ needrun[j] /\ threads[j] > maxcores THEN maxcores
    ELSE threads[j]

\* mutant of Scan: the test of line 58 is dropped, an empty list goes to the
\* selector
ScanNoEmptyTest ==
    /\ pc = "scan"
    /\ needrunL' = SelectSeq(ready_jobs, LAMBDA j : needrun[j])
    /\ threads' = [j \in Jobs |-> Clamped(j)]
    /\ clamped' = clamped \cup {j \in Jobs : Clamped(j) # threads[j]}
    /\ unscanned' = {}
    /\ pc' = "select"
    /\ UNCHANGED <<configVars, _cores, _errors, _open_jobs, finished_jobs,
                   needrun, deps, finished, errSeen, run, creg, result,
                   inflight, failed, dispatched, workerVars>>

\* lines 46..60: build needrun from dag.ready_jobs, clamping; leave if empty
Scan ==
    /\ pc = "scan"
    /\ needrunL' = SelectSeq(ready_jobs, LAMBDA j : needrun[j])
    /\ threads' = [j \in Jobs |-> Clamped(j)]
    /\ clamped' = clamped \cup {j \in Jobs : Clamped(j) # threads[j]}
    /\ unscanned' = {}
    /\ pc' = IF needrunL' = <<>> THEN "shutdown_ok" ELSE "select"
    /\ UNCHANGED <<configVars, _cores, _errors, _open_jobs, finished_jobs,
                   needrun, deps, finished, errSeen, run, creg, result,
                   inflight, failed, dispatched, workerVars>>

\* line 62: run = self._selector(needrun)
Select ==
    /\ pc = "select"
    /\ IF SelectorRaises(needrunL)
       THEN pc' = "raised" /\ run' = run
       ELSE pc' = "load" /\ run' = Selected(needrunL)
    /\ UNCHANGED <<configVars, _cores, _errors, _open_jobs, finished_jobs,
                   graphVars, errSeen, needrunL, creg, result, backendVars>>

\* line 63, first half: the load of self._cores by the augmented assignment
LoadCores ==
    /\ pc = "load"
    /\ creg' = _cores
    /\ needrunL' = <<>>
    /\ pc' = "store"
    /\ UNCHANGED <<configVars, _cores, _errors, _open_jobs, finished_jobs,
                   graphVars, errSeen, run, result, backendVars>>

\* line 63, second half: the store of self._cores
StoreCores ==
    /\ pc = "store"
    /\ _cores' = creg - ThreadSum(run)
    /\ creg' = 0
    /\ pc' = IF run = {} THEN "wait" ELSE "dispatch"
    /\ UNCHANGED <<configVars, _errors, _open_jobs, finished_jobs,
                   graphVars, errSeen, needrunL, run, result, backendVars>>

\* the job the loop of line 64 hands over next: a list is walked in its
\* order, the set the knapsack selector returns in any order
NextOfRun(j) ==
    /\ j \in run
    /\ mode # "local" => \A k \in run : j <= k

\* lines 64..66: executor.run(job, callback, error_callback) for one job
Dispatch(j) ==
    /\ pc = "dispatch"
    /\ NextOfRun(j)
    /\ run' = run \ {j}
    /\ inflight' = [inflight EXCEPT ![j] = @ + 1]
    /\ dispatched' = [dispatched EXCEPT ![j] = @ + 1]
    /\ pc' = IF run' = {} THEN "wait" ELSE "dispatch"
    /\ UNCHANGED <<configVars, _cores, _errors, _open_jobs, finished_jobs,
                   graphVars, errSeen, needrunL, creg, result, failed,
                   historyVars, workerVars>>

\* executor.shutdown() returns once every dispatched job has reported
Drained ==
    /\ \A j \in Jobs : inflight[j] = 0
    /\ \A w \in Workers : wpc[w] = "idle"

\* lines 43..44: shutdown, return False
ReturnFalse ==
    /\ pc = "shutdown_err"
    /\ Drained
    /\ pc' = "returned"
    /\ result' = "false"
    /\ UNCHANGED <<configVars, _cores, _errors, _open_jobs, finished_jobs,
                   graphVars, localVars, backendVars>>

\* lines 59..60: shutdown, return True
ReturnTrue ==
    /\ pc = "shutdown_ok"
    /\ Drained
    /\ pc' = "returned"
    /\ result' = "true"
    /\ UNCHANGED <<configVars, _cores, _errors, _open_jobs, finished_jobs,
                   graphVars, localVars, backendVars>>

\* ------------------------------------------------------ the callbacks
\* the backend uses the free context with the least number
FreeWorker(w) == wpc[w] = "idle" /\ \A v \in Workers : v < w => wpc[v] # "idle"

\* _finished(job) is invoked: lines 69..71 up to the load of self._cores
FinishedBegin(w, j) ==
    /\ FreeWorker(w)
    /\ inflight[j] > 0
    /\ inflight' = [inflight EXCEPT ![j] = @ - 1]
    /\ wjob' = [wjob EXCEPT ![w] = j]
    /\ IF needrun[j]
       THEN wreg' = [wreg EXCEPT ![w] = _cores]
            /\ wpc' = [wpc EXCEPT ![w] = "refund"]
       ELSE wreg' = wreg
            /\ wpc' = [wpc EXCEPT ![w] = "count_load"]
    /\ UNCHANGED <<configVars, _cores, _errors, _open_jobs, finished_jobs,
                   graphVars, pc, localVars, result, failed, dispatched,
                   historyVars>>

\* line 71: the store of self._cores += job.threads
FinishedRefund(w) ==
    /\ wpc[w] = "refund"
    /\ _cores' = wreg[w] + threads[wjob[w]]
    /\ wreg' = [wreg EXCEPT ![w] = 0]
    /\ wpc' = [wpc EXCEPT ![w] = "count_load"]
    /\ UNCHANGED <<configVars, _errors, _open_jobs, finished_jobs,
                   graphVars, pc, localVars, result, inflight, failed,
                   dispatched, historyVars, wjob>>

\* line 72: the load of self.finished_jobs
FinishedCountLoad(w) ==
    /\ wpc[w] = "count_load"
    /\ wreg' = [wreg EXCEPT ![w] = finished_jobs]
    /\ wpc' = [wpc EXCEPT ![w] = "count_store"]
    /\ UNCHANGED <<configVars, _cores, _errors, _open_jobs, finished_jobs,
                   graphVars, pc, localVars, result, inflight, failed,
                   dispatched, historyVars, wjob>>

\* line 72: the store of self.finished_jobs += 1
FinishedCountStore(w) ==
    /\ wpc[w] = "count_store"
    /\ finished_jobs' = wreg[w] + 1
    /\ wreg' = [wreg EXCEPT ![w] = 0]
    /\ wpc' = [wpc EXCEPT ![w] = "dag_finish"]
    /\ UNCHANGED <<configVars, _cores, _errors, _open_jobs,
                   graphVars, pc, localVars, result, inflight, failed,
                   dispatched, historyVars, wjob>>

\* mutant of FinishedDag: the callback ends after dag.finish without setting
\* the event
FinishedDagNoWake(w) ==
    /\ wpc[w] = "dag_finish"
    /\ finished' = DagFinish(wjob[w])
    /\ unscanned' = unscanned \cup {wjob[w]}
    /\ wjob' = [wjob EXCEPT ![w] = 1]
    /\ wpc' = [wpc EXCEPT ![w] = "idle"]
    /\ UNCHANGED <<configVars, _cores, _errors, _open_jobs, finished_jobs,
                   threads, needrun, deps, pc, localVars, result, inflight,
                   failed, dispatched, clamped, wreg>>

\* line 73: self.dag.finish(job)
FinishedDag(w) ==
    /\ wpc[w] = "dag_finish"
    /\ finished' = DagFinish(wjob[w])
    /\ unscanned' = unscanned \cup {wjob[w]}
    /\ wjob' = [wjob EXCEPT ![w] = 1]
    /\ wpc' = [wpc EXCEPT ![w] = "set"]
    /\ UNCHANGED <<configVars, _cores, _errors, _open_jobs, finished_jobs,
                   threads, needrun, deps, pc, localVars, result, inflight,
                   failed, dispatched, clamped, wreg>>

\* lines 75 and 81: self._open_jobs.set(), the last step of both callbacks
SetOpenJobs(w) ==
    /\ wpc[w] = "set"
    /\ _open_jobs' = TRUE
    /\ wpc' = [wpc EXCEPT ![w] = "idle"]
    /\ UNCHANGED <<configVars, _cores, _errors, finished_jobs,
                   graphVars, pc, localVars, result, inflight, failed,
                   dispatched, historyVars, wjob, wreg>>

\* mutant of ErrorBegin: the error callback returns the job's threads to the
\* budget as the success callback does
ErrorBeginRefund(w, j) ==
    /\ FreeWorker(w)
    /\ inflight[j] > 0
    /\ inflight' = [inflight EXCEPT ![j] = @ - 1]
    /\ failed' = [failed EXCEPT ![j] = @ + 1]
    /\ _errors' = TRUE
    /\ _cores' = _cores + threads[j]
    /\ wpc' = [wpc EXCEPT ![w] = "set"]
    /\ UNCHANGED <<configVars, _open_jobs, finished_jobs,
                   graphVars, pc, localVars, result, dispatched, historyVars,
                   wjob, wreg>>

\* _error() is invoked for a dispatch of job j: line 79
ErrorBegin(w, j) ==
    /\ FreeWorker(w)
    /\ inflight[j] > 0
    /\ inflight' = [inflight EXCEPT ![j] = @ - 1]
    /\ failed' = [failed EXCEPT ![j] = @ + 1]
    /\ _errors' = TRUE
    /\ wpc' = [wpc EXCEPT ![w] = "set"]
    /\ UNCHANGED <<configVars, _cores, _open_jobs, finished_jobs,
                   graphVars, pc, localVars, result, dispatched, historyVars,
                   wjob, wreg>>

Next ==
    \/ Wait
    \/ Clear
    \/ CheckErrors
    \/ Scan
    \/ Select
    \/ LoadCores
    \/ StoreCores
    \/ \E j \in Jobs : Dispatch(j)
    \/ ReturnFalse
    \/ ReturnTrue
    \/ \E w \in Workers, j \in Jobs : FinishedBegin(w, j)
    \/ \E w \in Workers : FinishedRefund(w)
    \/ \E w \in Workers : FinishedCountLoad(w)
    \/ \E w \in Workers : FinishedCountStore(w)
    \/ \E w \in Workers : FinishedDag(w)
    \/ \E w \in Workers : SetOpenJobs(w)
    \/ \E w \in Workers, j \in Jobs : ErrorBegin(w, j)

Spec == Init /\ [][Next]_vars

\* ------------------------------------- the selectors on their own inputs
\* the control thread at line 62 with any candidate list and any budget
SelInit ==
    /\ mode \in Modes
    /\ maxcores = SelMaxCores
    /\ _cores \in 0..SelMaxCores
    /\ _errors = FALSE
    /\ _open_jobs = FALSE
    /\ finished_jobs = 0
    /\ threads \in [Jobs -> 1..SelMaxThreads]
    /\ needrun = [j \in Jobs |-> TRUE]
    /\ deps = [j \in Jobs |-> {}]
    /\ finished = {}
    /\ BackendInit
    /\ pc = "select"
    /\ errSeen = FALSE
    /\ needrunL \in {[k \in 1..n |-> k] : n \in 0..NJobs}
    /\ run = {}
    /\ creg = 0
    /\ result = "none"

\* lines 62..63: the selection and the deduction that follows it
SelNext ==
    \/ Select
    \/ LoadCores
    \/ StoreCores

SelSpec == SelInit /\ [][SelNext]_vars

\* ------------------------------------------------------------ measures
\* thread requirements of the dispatches whose success callback has not
\* been invoked: those awaiting a callback and those that ended in _error
Outstanding ==
    SumOver(Jobs, [j \in Jobs |-> (inflight[j] + failed[j]) * threads[j]])

\* number of success callbacks invoked so far
Completions ==
    SumOver(Jobs, [j \in Jobs |-> dispatched[j] - inflight[j] - failed[j]])

\* every job that needed running has been marked finished
AllNeededDone == \A j \in Jobs : needrun[j] => j \in finished

\* a step in which executor.run is called
DispatchStep == \E j \in Jobs : dispatched'[j] > dispatched[j]

SetMax(S) == CHOOSE x \in S : \A y \in S : y <= x

\* the largest thread-sum of a subset of S within cap, by enumeration
BruteBest(S, cap) ==
    SetMax({ThreadSum(T) : T \in {U \in SUBSET S : ThreadSum(U) <= cap}})

\* the first i candidates of the list handed to the selector
FirstOf(jobs, i) == {jobs[k] : k \in 1..i}

\* the selector has just returned run for needrunL and the budget _cores
JustSelected == pc = "load"

\* -------------------------------------------------------------- claims

\* C1: the thread requirements of the jobs dispatched and not yet reported
\* successful never sum to more than maxcores, in every mode.
C1_BudgetInvariant == Outstanding <= maxcores

\* C2: the remaining budget always satisfies 0 <= _cores <= maxcores.
C2_CoresInRange == 0 <= _cores /\ _cores <= maxcores

\* C3: the knapsack selector returns candidates whose thread-sum is within
\* the budget and equals the best sum any subset reaches within the budget.
C3_KnapsackOptimal ==
    (JustSelected /\ mode = "local") =>
        /\ run \subseteq Range(needrunL)
        /\ ThreadSum(run) <= _cores
        /\ ThreadSum(run) = BruteBest(Range(needrunL), _cores)

\* C3 witness: three candidates, the first one left out, the budget filled
C3_Witness ==
    /\ JustSelected /\ mode = "local"
    /\ Len(needrunL) = 3
    /\ 1 \notin run /\ run # {}
    /\ ThreadSum(run) = _cores

\* C4: deductions and refunds balance under every interleaving of their
\* loads and stores: with nothing in flight, no callback running, no
\* deduction pending and no error, _cores is maxcores again.
C4_BudgetConserved ==
    (/\ Drained
     /\ ~_errors
     /\ pc \in {"wait", "clear", "check", "scan", "select", "shutdown_ok", "returned"})
        => _cores = maxcores

\* C5: schedule() returns True only when every needed job has completed, and
\* a run that ends with every needed job completed returns True.
C5_TrueIffAllDone ==
    pc = "returned" => (result = "true" <=> AllNeededDone)

\* C6: schedule() returns False exactly when an error callback has fired
\* before it returns.
C6_FalseIffError ==
    pc = "returned" => (result = "false" <=> _errors)

\* C7 as claimed: the error flag never goes back to false, and no job is
\* handed to the backend in a state where the flag is already true.
C7_NoDispatchUnderFlag ==
    [][(_errors => _errors') /\ (DispatchStep => ~_errors)]_vars

\* C7 as amended: the error flag never goes back to false, and no job is
\* handed to the backend in an iteration whose error check (line 41) read the
\* flag as true; the flag can be true at a dispatch only when the error
\* callback fired after that iteration's check.
C7_NoDispatchAfterCheck ==
    [][(_errors => _errors') /\ (DispatchStep => ~errSeen)]_vars

\* C7 witness: the check read the flag as true while needed work that was
\* never dispatched is ready, and the loop is on its way out
C7_Witness ==
    /\ errSeen /\ pc = "shutdown_err"
    /\ \E j \in Jobs : Ready(j) /\ needrun[j] /\ dispatched[j] = 0

C9_PrefixWithinBudget ==
    (JustSelected /\ mode # "local") =>
        /\ \E n \in 0..Len(needrunL) : run = FirstOf(needrunL, n)
        /\ ThreadSum(run) <= _cores

\* C10: the knapsack selector takes candidate i exactly when the best sum of
\* the first i candidates at the capacity left by the later ones it took
\* differs from the best sum of the first i-1; for A(2), C(2), B(3) and a
\* budget of 4 it returns {A, C}.
C10_TieBreak ==
    (JustSelected /\ mode = "local") =>
        /\ \A i \in 1..Len(needrunL) :
              LET later == {needrunL[k] : k \in (i + 1)..Len(needrunL)} \cap run
                  capi == _cores - ThreadSum(later)
              IN  needrunL[i] \in run <=>
                      BruteBest(FirstOf(needrunL, i), capi)
                          # BruteBest(FirstOf(needrunL, i - 1), capi)
        /\ (/\ needrunL = <<1, 2, 3>>
            /\ threads[1] = 2 /\ threads[2] = 2 /\ threads[3] = 3
            /\ _cores = 4) => run = {1, 2}

\* C10 witness: the scenario A(2), C(2), B(3) with budget 4, B left out
C10_Witness ==
    /\ JustSelected /\ mode = "local"
    /\ needrunL = <<1, 2, 3>>
    /\ threads[1] = 2 /\ threads[2] = 2 /\ threads[3] = 3
    /\ _cores = 4
    /\ run = {1, 2}

\* success callbacks that are past their store of self.finished_jobs
CountedCallbacks ==
    Completions
        - Cardinality({w \in Workers : wpc[w] \in {"refund", "count_load", "count_store"}})

\* C11: the finished counter equals the number of success callbacks that
\* have passed their increment, under every interleaving of the loads and
\* stores of concurrent callbacks.
C11_CounterExact == finished_jobs = CountedCallbacks

\* the control thread sleeps in wait() and no callback is about to set the event
Asleep ==
    /\ pc = "wait"
    /\ ~_open_jobs
    /\ \A w \in Workers : wpc[w] # "set"

\* C12: the loop never sleeps on the wake signal while a job that dag.finish
\* was told about has not been covered by a scan: every completion is followed
\* by a set, and a set that arrives before the clear is followed by the scan.
C12_NoMissedCompletion == Asleep => unscanned = {}

\* C12 witness: two completions reached the graph while the loop waited, and
\* a single set of the event stands for both
C12_Witness ==
    /\ pc = "wait" /\ _open_jobs
    /\ Cardinality(unscanned) = 2
    /\ \A w \in Workers : wpc[w] = "idle"
    /\ \E j \in Jobs : Ready(j) /\ needrun[j] /\ deps[j] \cap unscanned # {}

\* a job that line 56 scaled down and that was never handed to the backend
ClampedWaiting(j) == j \in clamped /\ dispatched[j] = 0

\* C13: a job whose thread requirement was clamped to maxcores is not left
\* undispatched for ever in a run without errors (while it waits, some step
\* of the loop or of a callback remains to be taken), and when it is the only
\* candidate and nothing is in flight the selector picks it at once.
C13_ClampLiveness ==
    /\ [](\A j \in Jobs : (ClampedWaiting(j) /\ ~_errors) => ENABLED Next)
    /\ [][\A j \in Jobs :
            (pc = "select" /\ pc' # "select" /\ needrunL = <<j>>
               /\ ClampedWaiting(j) /\ ~_errors /\ Drained) => run' = {j}]_vars

\* the scan of lines 46..57 finds no ready job with needrun true
NoCandidates == \A j \in Jobs : ~(Ready(j) /\ needrun[j])

\* C14: when the error check passed and the scan finds no ready job with
\* needrun true, the loop goes straight to the shutdown of line 59; from
\* there its only step is the return of True, which stays possible, and it
\* neither calls the selector, nor dispatches, nor writes the budget (the
\* budget changes only by a callback's own refund).
C14_NoCandidatesReturnsTrue ==
    /\ [][(pc = "scan" /\ pc' # "scan" /\ NoCandidates)
            => (pc' = "shutdown_ok" /\ ~errSeen /\ run' = run
                  /\ _cores' = _cores /\ ~DispatchStep)]_vars
    /\ [][pc = "shutdown_ok"
            => /\ pc' \in {"shutdown_ok", "returned"}
               /\ pc' = "returned" => result' = "true"
               /\ run' = run /\ ~DispatchStep
               /\ _cores' # _cores =>
                     \E w \in Workers : wpc[w] = "refund" /\ wpc'[w] # "refund"]_vars
    /\ [](pc = "shutdown_ok" => ENABLED Next)

\* C14 witness: True was returned after a scan that met a ready job, none of
\* them needed, once earlier jobs had run
C14_Witness ==
    /\ result = "true"
    /\ finished # {}
    /\ \E j \in Jobs : Ready(j) /\ ~needrun[j]

\* C15: the scan hands on exactly the jobs that are ready and have needrun
\* true as it reads the graph; of these it sets a thread requirement above
\* maxcores to maxcores, in every mode, and leaves every other job's value
\* alone; no step raises a job's thread requirement; so the selector sees
\* only jobs with needrun true and between 1 and maxcores threads.
C15_CandidatesClamped ==
    /\ [][(pc = "scan" /\ pc' # "scan")
            => \A j \in Jobs :
                 /\ (j \in Range(needrunL')) <=> (Ready(j) /\ needrun[j])
                 /\ threads'[j] =
                       IF Ready(j) /\ needrun[j] /\ threads[j] > maxcores
                       THEN maxcores ELSE threads[j]]_vars
    /\ [][\A j \in Jobs : threads'[j] <= threads[j]]_vars
    /\ [](pc = "select"
            => \A j \in Range(needrunL) :
                 needrun[j] /\ 1 <= threads[j] /\ threads[j] <= maxcores)

\* C15 witness: a dry run in which the selector is about to get a candidate
\* that was scaled down, while a ready job with needrun false keeps a
\* requirement above maxcores
C15_Witness ==
    /\ mode = "dryrun" /\ pc = "select"
    /\ \E j \in Range(needrunL) : j \in clamped /\ threads[j] = maxcores
    /\ \E k \in Jobs : Ready(k) /\ ~needrun[k] /\ threads[k] > maxcores

\* C16: schedule() returns in every fair run. Under weak fairness of the
\* loop and of the callbacks a run fails to return exactly when it reaches a
\* state that has not returned and in which no step of the loop or of a
\* callback can be taken; no such state is reachable.
C16_AlwaysReturns == pc = "returned" \/ ENABLED Next

\* C17: the step of a success callback that passes line 71 raises the budget
\* by exactly the thread requirement of its job, a success callback of a job
\* with needrun false passes line 70 without changing the budget, and a job's
\* thread requirement does not change from the selection that deducts it to
\* its refund, so what is added back is what was deducted.
C17_RefundExact ==
    /\ [][\A w \in Workers :
            /\ (wpc[w] = "refund" /\ wpc'[w] # "refund")
                  => _cores' = _cores + threads[wjob[w]]
            /\ (wpc[w] = "idle" /\ wpc'[w] = "count_load")
                  => _cores' = _cores]_vars
    /\ [][\A j \in Jobs :
            (j \in run \/ dispatched[j] > 0) => threads'[j] = threads[j]]_vars

\* C18: no job is handed to the backend more than once in a run of
\* schedule(), so never while it is in flight or after it has finished.
C18_DispatchedOnce == \A j \in Jobs : dispatched[j] <= 1

\* C19: when the selector is called with at least one candidate while no
\* job is in flight and no error has occurred, it returns a non-empty set;
\* hence the loop is never blocked on the cleared event with nothing in
\* flight, needed work ready and no error.
C19_SelectorProgress ==
    /\ [][(pc = "select" /\ pc' # "select" /\ needrunL # <<>>
              /\ Drained /\ ~_errors)
            => (pc' = "load" /\ run' # {})]_vars
    /\ [](~(/\ pc = "wait" /\ ~_open_jobs
            /\ Drained /\ ~_errors
            /\ \E j \in Jobs : Ready(j) /\ needrun[j]))

\* C20: the step with which an error callback starts sets the error flag and
\* leaves the budget, the finished counter, the graph and the event as they
\* are; the step with which a callback ends sets the event and changes
\* nothing else; so a failure returns no threads to the budget.
C20_ErrorFrame ==
    [][/\ failed' # failed
            => /\ _errors'
               /\ \E w \in Workers : wpc[w] = "idle" /\ wpc'[w] = "set"
               /\ UNCHANGED <<_cores, finished_jobs, _open_jobs, graphVars>>
       /\ (\E w \in Workers : wpc[w] = "set" /\ wpc'[w] # "set")
            => /\ _open_jobs'
               /\ UNCHANGED <<_cores, finished_jobs, _errors, graphVars>>]_vars

\* C20 witness: the run ended after a single failure, and the budget still
\* lacks the threads of the job that failed
C20_Witness ==
    /\ result = "false"
    /\ \E j \in Jobs :
          /\ failed[j] = 1 /\ dispatched[j] = 1
          /\ \A k \in Jobs \ {j} : failed[k] = 0
          /\ _cores = maxcores - threads[j]

====
